---- MODULE Spec2Model ----
(***************************************************************************)
(* Exemplar management and the exemplar-mean cache of the two iCaRLModel   *)
(* classes of this repository:                                             *)
(*   impl = "icarl"       libs/models/icarl.py                              *)
(*   impl = "classifiers" libs/models/icarl_classifiers.py                  *)
(* Labels and list positions are 0-based as in the Python source; TLA+     *)
(* sequences are 1-based, so label L lives at position L + 1.              *)
(*                                                                         *)
(* The feature extractor is external.  What herding needs from it is the   *)
(* distance of every candidate at every greedy step; Distance gives that   *)
(* as a table of small naturals chosen by the caller's data, equal entries *)
(* being ties.  A feature cached for a sample is represented by the        *)
(* identity of the sample it was extracted from.                           *)
(***************************************************************************)
EXTENDS Integers, Sequences, FiniteSets, TLC

VARIABLES impl, memory, known_classes, net_version, old_net, exemplar_sets,
          class_memories, compute_means, exemplar_means, has_to_normalize,
          clf, classifier, wa_log, wa_calls, bias_layer, ret,
          loss_computer, fc, last

vars == <<impl, memory, known_classes, net_version, old_net, exemplar_sets,
          class_memories, compute_means, exemplar_means, has_to_normalize,
          clf, classifier, wa_log, wa_calls, bias_layer, ret,
          loss_computer, fc, last>>

(***************************************************************************)
(* Bounds and program constants                                            *)
(***************************************************************************)
\* number of entries of exemplar_sets in icarl.py (constructor argument)
NumClasses == 2000
\* default memory budget of both constructors
DefaultMemory == 2000
\* the total the assertion of after_train compares the allocation with
AssertedTotal == 2000
\* default n_new_classes of increment_known_classes
DefaultNewClasses == 10
\* samples the data set holds per class
SamplesPerClass == 3
\* largest m asked of a direct construct / reduce call
MaxM == 3
\* labels a direct construct / reduce call may name
MaxLabel == 1
\* largest number of exemplar sets built in icarl_classifiers.py
MaxSets == 2
\* largest number of training phases
MaxPhases == 2
\* largest number of calls of increment_known_classes
MaxIncrements == 2
\* inputs of the pure allocation check
MaxAllocMemory == 12
MaxAllocClasses == 9
\* largest number of outputs of a head handed to increment_class
MaxHead == 3

\* class batch sizes handed to after_train
ClassBatchSizes == {750, 1000}
\* distance tables (see Distance)
DistTables == 0..3

Min(a, b) == IF a < b THEN a ELSE b

SeqRange(s) == {s[j] : j \in 1..Len(s)}

\* the slice s[-m:] in place of s[:m]
PySuffix(s, m) == SubSeq(s, Len(s) - Min(m, Len(s)) + 1, Len(s))

\* Python s[:m] for m >= 0
PyPrefix(s, m) == SubSeq(s, 1, Min(m, Len(s)))

\* identities (data set indices) of the first n samples of class c, in the
\* order the caller hands them over
Ids(c, n) == [j \in 1..n |-> c * SamplesPerClass + (j - 1)]

\* torch.dist(class_mean, mean of candidate i at greedy step k) for the
\* data of table t: 0 all candidates equal, 1 growing with the position,
\* 2 shrinking with the position, 3 alternating with the step
Distance(t, n, k, i) ==
  CASE t = 0 -> 0
    [] t = 1 -> i
    [] t = 2 -> n - 1 - i
    [] OTHER -> (i + k) % 2

(***************************************************************************)
(* Memory allocation, after_train of icarl.py                              *)
(***************************************************************************)
\* min_memory = int(memory / known_classes)
MinMemory(M, K) == M \div K

\* empty_memory = memory % known_classes
EmptyMemory(M, K) == M % K

\* the loop running over range(empty_memory + 1)
ClassMemoryOneMore(M, K, i) ==
  MinMemory(M, K) + (IF i <= EmptyMemory(M, K) THEN 1 ELSE 0)

\* class_memories[i] after the loop that adds 1 to the first empty_memory
ClassMemory(M, K, i) == MinMemory(M, K) + (IF i < EmptyMemory(M, K) THEN 1 ELSE 0)

\* the list class_memories (position i + 1 holds class i)
ClassMemories(M, K) == [j \in 1..K |-> ClassMemory(M, K, j - 1)]

\* sum(class_memories), added up by halves to keep the evaluation shallow
RECURSIVE SumRange(_, _, _)
SumRange(cm, lo, hi) ==
  IF lo > hi THEN 0
  ELSE IF lo = hi THEN cm[lo]
  ELSE LET mid == (lo + hi) \div 2
       IN  SumRange(cm, lo, mid) + SumRange(cm, mid + 1, hi)
SumOf(cm) == SumRange(cm, 1, Len(cm))

(***************************************************************************)
(* Herding, construct_exemplar_set of icarl.py                             *)
(***************************************************************************)
\* the inner loop of one greedy step: the candidate of smallest distance
\* among those that pass the test "i in exemplars", the first one on a tie;
\* -1 when no candidate passes
MinIndexIcarl(t, n, k, exemplars) ==
  LET cand == {i \in 0..(n - 1) : i \notin SeqRange(exemplars)}
  IN  IF cand = {} THEN -1
      ELSE CHOOSE i \in cand : \A j \in cand :
             \/ Distance(t, n, k, i) < Distance(t, n, k, j)
             \/ Distance(t, n, k, i) = Distance(t, n, k, j) /\ i <= j

\* map_subset_to_cifar[min_index], Python indexing (-1 is the last entry)
MapSubsetToCifar(ids, n, min_index) ==
  IF min_index = -1 THEN ids[n] ELSE ids[min_index + 1]

\* the greedy loop "for k in range(m)": the list exemplar_sets[label]
\* ['indexes'] after steps k .. m-1, starting from the list indexes
RECURSIVE HerdIcarl(_, _, _, _, _, _)
HerdIcarl(t, ids, n, m, k, indexes) ==
  IF k >= m THEN indexes
  ELSE HerdIcarl(t, ids, n, m, k + 1,
         Append(indexes, MapSubsetToCifar(ids, n, MinIndexIcarl(t, n, k, indexes))))

\* the guard with the comparison turned round
ConstructFailsReversed(n, m) == n > m

\* the guard of construct_exemplar_set
ConstructFails(n, m) == n < m

\* exemplar_sets[label] after construct_exemplar_set on the n samples of
\* class c; without herding the method does nothing
ConstructedIcarl(set, c, n, m, herding, t) ==
  IF herding
  THEN LET idx == HerdIcarl(t, Ids(c, n), n, m, 0, set.indexes)
       IN  [indexes |-> idx,
            features |-> set.features \o SubSeq(idx, Len(set.indexes) + 1, Len(idx))]
  ELSE set

\* the identities appended by that call, in the order of the greedy steps
SelectedIcarl(set, c, n, m, herding, t) ==
  IF herding
  THEN LET idx == HerdIcarl(t, Ids(c, n), n, m, 0, set.indexes)
       IN  SubSeq(idx, Len(set.indexes) + 1, Len(idx))
  ELSE <<>>

\* a guard that rejects every contraction
ReduceFailsOnContraction(set, m) == Len(set.indexes) > m

\* the guard of reduce_exemplar_set of icarl.py
ReduceFails(set, m) == Len(set.indexes) < m

\* a reduction that drops the oldest entries
ReducedIcarlFromFront(set, m) ==
  [indexes |-> SubSeq(set.indexes, Len(set.indexes) - m + 1, Len(set.indexes)),
   features |-> SubSeq(set.features, Len(set.features) - m + 1, Len(set.features))]

\* exemplar_sets[label] after reduce_exemplar_set of icarl.py
ReducedIcarl(set, m) ==
  [indexes |-> PyPrefix(set.indexes, m), features |-> PyPrefix(set.features, m)]

(***************************************************************************)
(* Herding, herding_construct_exemplar_set of icarl_classifiers.py         *)
(***************************************************************************)
\* the positions that may be the first in np.argsort(distances) whose
\* identity is not yet in the set exemplars; -1 alone when every identity is
\* in it.  np.argsort sorts with its default kind, quicksort, which does not
\* keep equal distances in position order once a class has more samples
\* than its insertion-sort cutoff (the classes here stand for such classes):
\* any unselected position of smallest distance may come first.
FirstUnselected(t, ids, n, k, exemplars) ==
  LET cand == {i \in 0..(n - 1) : ids[i + 1] \notin exemplars}
  IN  IF cand = {} THEN {-1}
      ELSE {i \in cand : \A j \in cand : Distance(t, n, k, i) <= Distance(t, n, k, j)}

\* the loop "for k in range(m)": the identities added to the set exemplars,
\* in the order they were added, for every order argsort may give
RECURSIVE HerdClassifiers(_, _, _, _, _, _)
HerdClassifiers(t, ids, n, m, k, chosen) ==
  IF k >= m THEN {chosen}
  ELSE UNION {HerdClassifiers(t, ids, n, m, k + 1,
                IF i = -1 THEN chosen ELSE Append(chosen, ids[i + 1])) :
              i \in FirstUnselected(t, ids, n, k, SeqRange(chosen))}

\* list(exemplars): CPython walks the hash table of a set in slot order; a
\* small non-negative int sits in the slot of its own value, so the list
\* comes out in ascending order of the identities
RECURSIVE ListOfSet(_)
ListOfSet(S) ==
  IF S = {} THEN <<>>
  ELSE LET lo == CHOOSE x \in S : \A y \in S : x <= y
       IN  <<lo>> \o ListOfSet(S \ {lo})

\* the outcomes of np.random.choice(np.arange(n), m, replace=False)
RandomChoices(n, m) ==
  {s \in [1..m -> 0..(n - 1)] : \A a, b \in 1..m : a # b => s[a] # s[b]}

(***************************************************************************)
(* State                                                                   *)
(***************************************************************************)
\* old_net = None; of a snapshot, net is the version of the weights it holds
\* and training the mode of the copied module
NoSnapshot ==
  [present |-> FALSE, net |-> 0, known_classes |-> 0, inner |-> 0,
   training |-> FALSE]

\* Python None where a loss identifier is expected
PyNone == "None"

\* loss_computer = None
NoLossComputer == [present |-> FALSE, classification |-> PyNone, distillation |-> PyNone]

\* bias_layer = None
NoBiasLayer == [present |-> FALSE, alpha |-> 0, beta |-> 0]

\* num_classes of the constructor of icarl_classifiers.py
HeadClasses == 100

\* the value a freshly constructed nn.Linear holds in a weight row or a bias
\* (framework initialisation); trained values are the other HeadValues
FreshValue == 0

\* nn.Linear(in_feature, out_features, bias=True): a head is kept as its
\* out_features, its weight rows and its biases, one value per output
Linear(out_features) ==
  [out_features |-> out_features,
   weight |-> [i \in 1..out_features |-> FreshValue],
   bias |-> [i \in 1..out_features |-> FreshValue]]

\* nothing returned yet; ret holds what the last call that works on tensors
\* was given (the features herding selects by) and what it returned
NoRet == <<>>

\* the record of the call made last: its arguments (label is the first new
\* label for after_train; n is the number of samples handed over per class,
\* and for reduce the size of the set before the call), the exception it ended
\* with ("ok" when it returned), the identities herding chose for each store
\* position it built, in the order of the greedy steps, and whether it ran
\* _compute_means
Call(op, result, label, n, m, herding, method, selected, computed) ==
  [op |-> op, result |-> result, label |-> label, n |-> n, m |-> m,
   herding |-> herding, method |-> method, selected |-> selected,
   computed |-> computed]

NoCall == Call("init", "ok", 0, 0, 0, FALSE, "", <<>>, FALSE)

\* exemplar_sets of icarl.py after __init__
EmptyStoreIcarl == [c \in 1..NumClasses |-> [indexes |-> <<>>, features |-> <<>>]]

\* the memory budgets the model is constructed with
Memories == {DefaultMemory \div 2, DefaultMemory}

\* the classifier argument of the constructor of icarl_classifiers.py
Classifiers == {"fc", "wa"}

\* the fields __init__ sets in both classes
InitCommon ==
  /\ known_classes = 0
  /\ net_version = 0
  /\ old_net = NoSnapshot
  /\ class_memories = <<>>
  /\ compute_means = TRUE
  /\ exemplar_means = <<>>
  /\ has_to_normalize = TRUE
  /\ clf = FALSE
  /\ wa_log = <<>>
  /\ wa_calls = 0
  /\ bias_layer = NoBiasLayer
  /\ ret = NoRet
  /\ loss_computer = NoLossComputer
  /\ fc = Linear(IF impl = "icarl" THEN NumClasses ELSE HeadClasses)
  /\ last = NoCall

InitIcarl ==
  /\ impl = "icarl"
  /\ memory \in Memories
  /\ classifier = "fc"
  /\ exemplar_sets = EmptyStoreIcarl
  /\ InitCommon

InitClassifiers ==
  /\ impl = "classifiers"
  /\ memory = DefaultMemory
  /\ classifier \in Classifiers
  /\ exemplar_sets = <<>>
  /\ InitCommon

\* the identities held for store position c (0-based)
Indexes(c) ==
  IF impl = "icarl" THEN exemplar_sets[c + 1].indexes ELSE exemplar_sets[c + 1]

\* number of store positions
StoreSize == Len(exemplar_sets)

\* an exception ends the run
Running == last.result = "ok"

(***************************************************************************)
(* icarl.py: after_train                                                   *)
(***************************************************************************)
LeastOf(S) == CHOOSE x \in S : \A y \in S : x <= y

\* the body of after_train once the allocation cm is computed: the
\* assertion, the reductions of the old classes in ascending order up to the
\* first that raises (firstRed), then the constructions of the new classes
\* up to the first that raises (firstCon)
AfterTrainFrom(old, K, n, herding, t, assertOk, firstRed, firstCon) ==
  /\ exemplar_sets' =
       IF ~assertOk THEN exemplar_sets
       ELSE [p \in 1..NumClasses |->
               IF p - 1 < firstRed
               THEN ReducedIcarl(exemplar_sets[p], ClassMemory(memory, K, p - 1))
               ELSE IF p - 1 >= old /\ p - 1 < firstCon
               THEN ConstructedIcarl(exemplar_sets[p], p - 1, n,
                                     ClassMemory(memory, K, p - 1), herding, t)
               ELSE exemplar_sets[p]]
  /\ last' = Call("after_train",
                  IF ~assertOk THEN "AssertionError"
                  ELSE IF firstRed < old \/ firstCon < K THEN "ValueError"
                  ELSE "ok",
                  old, n, 0, herding, "",
                  IF ~assertOk \/ ~herding THEN <<>>
                  ELSE [c \in old..(firstCon - 1) |->
                          SelectedIcarl(exemplar_sets[c + 1], c, n,
                                        ClassMemory(memory, K, c), herding, t)],
                  FALSE)

AfterTrain(class_batch_size, n, herding, t) ==
  /\ impl = "icarl"
  /\ Running
  /\ known_classes + class_batch_size <= NumClasses
  /\ known_classes' = known_classes + class_batch_size
  /\ \E training \in BOOLEAN :
       old_net' = [present |-> TRUE, net |-> net_version,
                   known_classes |-> known_classes + class_batch_size,
                   inner |-> IF old_net.present THEN old_net.inner + 1 ELSE 0,
                   training |-> training]
  /\ class_memories' = ClassMemories(memory, known_classes + class_batch_size)
  /\ \E redFail \in {{i \in 0..(known_classes - 1) :
                        ReduceFails(exemplar_sets[i + 1],
                                    ClassMemory(memory, known_classes', i))}} :
     \E conFail \in {{c \in known_classes..(known_classes' - 1) :
                        ConstructFails(n, ClassMemory(memory, known_classes', c))}} :
     \E firstRed \in {IF redFail = {} THEN known_classes ELSE LeastOf(redFail)} :
     \E firstCon \in {IF redFail # {} THEN known_classes
                      ELSE IF conFail = {} THEN known_classes'
                      ELSE LeastOf(conFail)} :
       AfterTrainFrom(known_classes, known_classes', n, herding, t,
                      SumOf(class_memories') = AssertedTotal, firstRed, firstCon)
  /\ ret' = IF herding THEN [features |-> t] ELSE ret
  /\ UNCHANGED <<impl, memory, net_version, compute_means, exemplar_means,
                 has_to_normalize, clf, classifier, wa_log, wa_calls,
                 bias_layer, loss_computer, fc>>

(***************************************************************************)
(* icarl.py: classify                                                      *)
(***************************************************************************)
\* compute_exemplars_means divides the sum of the cached features of each
\* known class by their number
ExemplarsMeansFail ==
  \E i \in 1..Min(known_classes, NumClasses) : exemplar_sets[i].features = <<>>

\* the exception classify of icarl.py ends with, "ok" when it returns: with
\* no class known _nearest_mean stores the prediction None into a numpy
\* array of floats
ClassifyIcarlResult(method) ==
  IF method = "nearest-mean"
  THEN IF ExemplarsMeansFail THEN "ZeroDivisionError"
       ELSE IF known_classes = 0 THEN "TypeError"
       ELSE "ok"
  ELSE "ok"

\* what classify of icarl.py returns: _k_nearest_neighbours has no return
\* statement, and no branch takes any other method
ClassifyIcarlReturns(method) ==
  IF method = "nearest-mean" THEN "targets"
  ELSE IF method = "fc" THEN "outputs"
  ELSE PyNone

ClassifyIcarl(method) ==
  /\ impl = "icarl"
  /\ Running
  /\ last' = Call("classify", ClassifyIcarlResult(method), 0, 0, 0, FALSE, method,
                  <<>>, FALSE)
  /\ ret' = IF ClassifyIcarlResult(method) = "ok"
            THEN [returned |-> ClassifyIcarlReturns(method)]
            ELSE ret
  /\ UNCHANGED <<impl, memory, known_classes, net_version, old_net, exemplar_sets,
                 class_memories, compute_means, exemplar_means, has_to_normalize,
                 clf, classifier, wa_log, wa_calls, bias_layer, loss_computer,
                 fc>>

(***************************************************************************)
(* icarl.py: increment_class                                               *)
(***************************************************************************)
\* data[:n] = src succeeds when src has as many rows as the slice, or one
\* row that is broadcast to them
SliceAssignFits(data, n, src) ==
  Len(src) = Min(n, Len(data)) \/ Len(src) = 1

\* data after data[:n] = src
SliceAssign(data, n, src) ==
  [i \in 1..Len(data) |->
     IF i <= Min(n, Len(data))
     THEN (IF Len(src) = 1 THEN src[1] ELSE src[i])
     ELSE data[i]]

\* the head is replaced by a new one of num_classes outputs before the old
\* weights are copied into it; a copy that does not fit raises and leaves
\* the new head in place
IncrementClass(num_classes) ==
  /\ impl = "icarl"
  /\ Running
  /\ LET weight == fc.weight
         bias == fc.bias
         out_feature == fc.out_features
         new == Linear(num_classes)
     IN  IF ~SliceAssignFits(new.weight, out_feature, weight)
         THEN /\ fc' = new
              /\ last' = Call("increment_class", "RuntimeError", 0, num_classes, 0,
                              FALSE, "", <<>>, FALSE)
         ELSE /\ fc' = [out_features |-> num_classes,
                        weight |-> SliceAssign(new.weight, out_feature, weight),
                        bias |-> SliceAssign(new.bias, out_feature, bias)]
              /\ last' = Call("increment_class", "ok", 0, num_classes, 0,
                              FALSE, "", <<>>, FALSE)
  /\ UNCHANGED <<impl, memory, known_classes, net_version, old_net, exemplar_sets,
                 class_memories, compute_means, exemplar_means, has_to_normalize,
                 clf, classifier, wa_log, wa_calls, bias_layer, ret,
                 loss_computer>>

(***************************************************************************)
(* icarl_classifiers.py: reduce_exemplar_set                               *)
(***************************************************************************)
ReduceExemplarSet(m, label) ==
  /\ impl = "classifiers"
  /\ Running
  /\ IF label >= Len(exemplar_sets)
     THEN /\ exemplar_sets' = exemplar_sets
          /\ last' = Call("reduce", "IndexError", label, 0, m, FALSE, "", <<>>, FALSE)
     ELSE /\ exemplar_sets' = [exemplar_sets EXCEPT ![label + 1] = PyPrefix(@, m)]
          /\ last' = Call("reduce", "ok", label, Len(exemplar_sets[label + 1]), m,
                          FALSE, "", <<>>, FALSE)
  /\ UNCHANGED <<impl, memory, known_classes, net_version, old_net, class_memories,
                 compute_means, exemplar_means, has_to_normalize, clf, classifier,
                 wa_log, wa_calls, bias_layer, ret, loss_computer, fc>>

(***************************************************************************)
(* icarl_classifiers.py: construct_exemplar_set                            *)
(***************************************************************************)
\* herding_construct_exemplar_set on the first n samples of class label
HerdingConstruct(label, n, m, t) ==
  \E chosen \in HerdClassifiers(t, Ids(label, n), n, m, 0, <<>>) :
    LET exemplars == SeqRange(chosen)
    IN  IF Cardinality(exemplars) # m
        THEN /\ exemplar_sets' = exemplar_sets
             /\ last' = Call("construct", "AssertionError", label, n, m, TRUE, "",
                             <<>>, FALSE)
        ELSE /\ exemplar_sets' = Append(exemplar_sets, ListOfSet(exemplars))
             /\ last' = Call("construct", "ok", label, n, m, TRUE, "",
                             (Len(exemplar_sets) :> chosen), FALSE)

\* random_construct_exemplar_set; choice is what np.random.choice returned
RandomConstruct(label, n, m, choice) ==
  IF m > n
  THEN /\ exemplar_sets' = exemplar_sets
       /\ last' = Call("construct", "ValueError", label, n, m, FALSE, "", <<>>, FALSE)
  ELSE IF Len(exemplar_sets) # label
  THEN /\ exemplar_sets' = exemplar_sets
       /\ last' = Call("construct", "AssertionError", label, n, m, FALSE, "", <<>>, FALSE)
  ELSE /\ choice \in RandomChoices(n, m)
       /\ exemplar_sets' = Append(exemplar_sets, choice)
       /\ last' = Call("construct", "ok", label, n, m, FALSE, "", <<>>, FALSE)

ConstructExemplarSet(label, n, m, herding, t, choice) ==
  /\ impl = "classifiers"
  /\ Running
  /\ Len(exemplar_sets) < MaxSets
  /\ IF herding THEN HerdingConstruct(label, n, m, t)
                ELSE RandomConstruct(label, n, m, choice)
  /\ ret' = IF herding THEN [features |-> t] ELSE ret
  /\ UNCHANGED <<impl, memory, known_classes, net_version, old_net, class_memories,
                 compute_means, exemplar_means, has_to_normalize, clf, classifier,
                 wa_log, wa_calls, bias_layer, loss_computer, fc>>

(***************************************************************************)
(* The exemplar store driven through both classes                          *)
(***************************************************************************)
Init == InitIcarl \/ InitClassifiers

Next ==
  \/ \E b \in ClassBatchSizes, n \in 1..SamplesPerClass, h \in BOOLEAN, t \in DistTables :
       AfterTrain(b, n, h, t)
  \/ \E m \in 0..MaxM, label \in 0..MaxLabel : ReduceExemplarSet(m, label)
  \/ \E label \in 0..MaxLabel, n \in 1..SamplesPerClass, m \in 0..MaxM, t \in DistTables :
       ConstructExemplarSet(label, n, m, TRUE, t, <<>>)
  \/ \E label \in 0..MaxLabel, n \in 1..SamplesPerClass, m \in 0..MaxM :
       \E choice \in IF m <= n THEN RandomChoices(n, m) ELSE {<<>>} :
         ConstructExemplarSet(label, n, m, FALSE, 0, choice)

Spec == Init /\ [][Next]_vars

(***************************************************************************)
(* icarl_classifiers.py: training and classification                       *)
(***************************************************************************)
\* the divisor of known_classes in _wa_fairness
WaBatch == 10
\* num_batch of WALinear: the number of sub-layers of the head
WaNumBatch == 10
\* the rows align_norms asserts the newest sub-layer to have
WaAssertedRows == 10
\* the count of 'wa' calls since the last training phase saturates here
MaxWaCalls == 2

\* the class means _compute_means derives from the store: one mean per set,
\* of the features the network of version net gives the samples fetched by
\* the stored identities
MeansOf(sets, net) ==
  [c \in 1..Len(sets) |-> [samples |-> SeqRange(sets[c]), net |-> net]]

\* torch.cat of the features of an empty set raises in _compute_means
ComputeMeansFails(sets) == \E c \in 1..Len(sets) : sets[c] = <<>>

\* what _nme and _cosine_similarity do with the list of means: torch.stack
\* raises on an empty list, and with a single class squeeze() drops the class
\* dimension so that min(1) / max(1) raises
MeansResult(means) ==
  IF Len(means) = 0 THEN "RuntimeError"
  ELSE IF Len(means) = 1 THEN "IndexError"
  ELSE "ok"

IncrementKnownClasses(n_new_classes) ==
  /\ impl = "classifiers"
  /\ Running
  /\ known_classes < MaxIncrements * n_new_classes
  /\ known_classes' = known_classes + n_new_classes
  /\ last' = Call("increment_known_classes", "ok", 0, 0, 0, FALSE, "", <<>>, FALSE)
  /\ UNCHANGED <<impl, memory, net_version, old_net, exemplar_sets, class_memories,
                 compute_means, exemplar_means, has_to_normalize, clf, classifier,
                 wa_log, wa_calls, bias_layer, ret, loss_computer, fc>>

(***************************************************************************)
(* ablationstudy_losses.py: ClassificationDistillationLosses, and          *)
(* compute_loss of icarl_classifiers.py.  A loss is kept as the term that  *)
(* computes it: the function applied and the tensors it is applied to; a   *)
(* weighted sum is kept as its weights and terms.  Ratios are fractions in *)
(* lowest terms.                                                           *)
(***************************************************************************)
\* class_batch_size of the constructor of icarl_classifiers.py
ClassBatchSize == 10
\* the divisor of dist_input.shape[1] in dist_correction
DistCorrectionDivisor == 100

RECURSIVE GCD(_, _)
GCD(a, b) == IF b = 0 THEN a ELSE GCD(b, a % b)

Rat(n, d) == [num |-> n \div GCD(n, d), den |-> d \div GCD(n, d)]

\* 1 - r
OneMinus(r) == Rat(r.den - r.num, r.den)

\* the keys of the dictionary loss_computer
LossKinds == {"bce", "ce", "smt", "kldiv", "lfc", "l2"}

\* a tensor of cols columns; None where a tensor is expected
Tensor(name, cols) == [name |-> name, cols |-> cols]
NoneTensor == Tensor("None", 0)

\* self.loss_computer[kind](input, target)
Loss(kind, input, target) == [kind |-> kind, input |-> input, target |-> target]

\* ClassificationDistillationLosses(class_loss, dist_loss); the constructor
\* stores the identifiers as they come
LossComputer(class_loss, dist_loss) ==
  [present |-> TRUE, classification |-> class_loss, distillation |-> dist_loss]

\* the test with the tensors left out
DistillationAppliesWhenConfigured(lc, dist_input, dist_target) ==
  lc.distillation # PyNone

\* the test that opens the distillation branch of __call__
DistillationApplies(lc, dist_input, dist_target) ==
  /\ lc.distillation # PyNone
  /\ dist_input.name # "None"
  /\ dist_target.name # "None"

\* the caller's class_ratio whatever the distillation kind
ClassRatioKept(distillation, class_ratio) == class_ratio

\* class_ratio as it enters the weighted sum
ClassRatioUsed(distillation, class_ratio) ==
  IF distillation = "lfc" THEN Rat(1, 1) ELSE class_ratio

\* dist_ratio: 1 - class_ratio, and 5 * sqrt(class_ratio / (1 - class_ratio))
\* for lfc, kept as the fraction under the root
DistRatio(distillation, class_ratio) ==
  IF distillation = "lfc"
  THEN [times |-> 5, sqrt_of |-> Rat(class_ratio.num, class_ratio.den - class_ratio.num)]
  ELSE OneMinus(class_ratio)

\* dist_target as handed to the distillation loss
DistTarget(distillation, dist_target) ==
  IF distillation \in {"bce", "ce"}
  THEN Tensor("softmax(" \o dist_target.name \o ")", dist_target.cols)
  ELSE dist_target

Raised(exception) == [result |-> exception, value |-> Loss(PyNone, NoneTensor, NoneTensor)]
Returned(value) == [result |-> "ok", value |-> value]

\* ClassificationDistillationLosses.__call__
Compose(lc, class_input, class_target, dist_input, dist_target, class_ratio) ==
  IF lc.classification \notin LossKinds THEN Raised("KeyError")
  ELSE IF ~DistillationApplies(lc, dist_input, dist_target)
  THEN Returned(Loss(lc.classification, class_input, class_target))
  ELSE IF lc.distillation = "lfc" /\ class_ratio.num = class_ratio.den
  THEN Raised("ZeroDivisionError")
  ELSE IF lc.distillation \notin LossKinds THEN Raised("KeyError")
  ELSE Returned(
         [class_ratio |-> ClassRatioUsed(lc.distillation, class_ratio),
          class_loss |-> Loss(lc.classification, class_input, class_target),
          dist_ratio |-> DistRatio(lc.distillation, class_ratio),
          dist_correction |-> Rat(dist_input.cols, DistCorrectionDivisor),
          dist_loss |-> Loss(lc.distillation, dist_input,
                             DistTarget(lc.distillation, dist_target))])

\* the tensors compute_loss works with
NewOutputs == Tensor("new_outputs", HeadClasses)
OneHot == Tensor("one_hot", HeadClasses)
Sliced(name) == Tensor(name, Min(known_classes, HeadClasses))

\* _compute_distillation_loss, snapshot being self.old_net
ComputeDistillationLoss(snapshot) ==
  IF known_classes = 0 THEN Returned(Loss("bce", NewOutputs, OneHot))
  ELSE IF ~snapshot.present THEN Raised("TypeError")
  ELSE Returned(Loss("bce", NewOutputs,
                     Tensor("one_hot, sigmoid(old_outputs) below " \o ToString(known_classes),
                            HeadClasses)))

\* compute_loss, snapshot being self.old_net
ComputeLoss(snapshot) ==
  IF ~loss_computer.present THEN ComputeDistillationLoss(snapshot)
  ELSE IF known_classes = 0
  THEN Compose(loss_computer, NewOutputs, OneHot, NoneTensor, NoneTensor,
               Rat(ClassBatchSize, ClassBatchSize + known_classes))
  ELSE IF ~snapshot.present THEN Raised("TypeError")
  ELSE Compose(loss_computer, NewOutputs, OneHot, Sliced("new_outputs"),
               Sliced("old_outputs"),
               Rat(ClassBatchSize, ClassBatchSize + known_classes))

\* compute_loss called on one batch
ComputeLossCall ==
  /\ impl = "classifiers"
  /\ Running
  /\ last' = Call("compute_loss", ComputeLoss(old_net).result, 0, 0, 0, FALSE, "",
                  <<>>, FALSE)
  /\ ret' = ComputeLoss(old_net)
  /\ UNCHANGED <<impl, memory, known_classes, net_version, old_net, exemplar_sets,
                 class_memories, compute_means, exemplar_means, has_to_normalize,
                 clf, classifier, wa_log, wa_calls, bias_layer, loss_computer,
                 fc>>

\* the loss computer called with the caller's tensors and class_ratio
LossComputerCall(dist_input, dist_target, class_ratio) ==
  /\ impl = "classifiers"
  /\ Running
  /\ loss_computer.present
  /\ \E r \in {Compose(loss_computer, NewOutputs, OneHot, dist_input, dist_target,
                       class_ratio)} :
       /\ last' = Call("loss_computer", r.result, 0, 0, 0, FALSE, "", <<>>, FALSE)
       /\ ret' = [result |-> r.result, value |-> r.value, dist_input |-> dist_input,
                  dist_target |-> dist_target, class_ratio |-> class_ratio]
  /\ UNCHANGED <<impl, memory, known_classes, net_version, old_net, exemplar_sets,
                 class_memories, compute_means, exemplar_means, has_to_normalize,
                 clf, classifier, wa_log, wa_calls, bias_layer, loss_computer,
                 fc>>

\* the modules whose parameters a default nn.Module.parameters() yields:
\* every registered submodule
ParametersOfSubmodules == {"net", "old_net"}

\* parameters(): self.net.parameters(), what the caller's optimizer is built
\* over
Parameters == {"net"}

\* the version of a module's weights after the optimizer steps of a phase
OptimizerSteps(module, version) ==
  IF module \in Parameters THEN version + 1 ELSE version

\* copy.deepcopy(self.net) followed by eval()
SnapshotOfNet(version) ==
  [present |-> TRUE, net |-> version, known_classes |-> 0, inner |-> 0,
   training |-> FALSE]

\* self.old_net after the epochs: net.train(), the forward passes and the
\* optimizer steps leave it alone unless its parameters are the optimizer's
Trained(snapshot) ==
  IF snapshot.present
  THEN [snapshot EXCEPT !.net = OptimizerSteps("old_net", @)]
  ELSE snapshot

\* update_representation with at least one epoch over a non-empty loader.
\* compute_loss is called on the first batch and what it raises ends the call;
\* it calls old_net as soon as known_classes > 0, which raises when no
\* snapshot was taken.
UpdateRepresentation(fit_clf) ==
  /\ impl = "classifiers"
  /\ Running
  /\ net_version < MaxPhases
  /\ compute_means' = TRUE
  /\ has_to_normalize' = TRUE
  /\ \E snapshot \in {IF Len(exemplar_sets) > 0 THEN SnapshotOfNet(net_version)
                       ELSE old_net} :
     IF ComputeLoss(snapshot).result # "ok"
     THEN /\ old_net' = snapshot
          /\ UNCHANGED <<net_version, clf>>
          /\ last' = Call("update_representation", ComputeLoss(snapshot).result,
                          0, 0, 0, FALSE, fit_clf, <<>>, FALSE)
     ELSE /\ old_net' = Trained(snapshot)
          /\ net_version' = OptimizerSteps("net", net_version)
          /\ clf' = IF fit_clf \in {"other_classifiers", "svm"} THEN TRUE ELSE clf
          /\ last' = Call("update_representation", "ok", 0, 0, 0, FALSE,
                          fit_clf, <<>>, FALSE)
  /\ wa_calls' = 0
  /\ UNCHANGED <<impl, memory, known_classes, exemplar_sets, class_memories,
                 exemplar_means, classifier, wa_log, bias_layer, ret,
                 loss_computer, fc>>

\* means recomputed on every call
MeansInvalidAlways == TRUE

\* the test "if self.compute_means" of _nme and _cosine_similarity
MeansInvalid == compute_means

\* _nme and _cosine_similarity
MeanClassify(method) ==
  IF MeansInvalid
  THEN IF ComputeMeansFails(exemplar_sets)
       THEN /\ UNCHANGED <<compute_means, exemplar_means>>
            /\ last' = Call("classify", "RuntimeError", 0, 0, 0, FALSE, method,
                            <<>>, TRUE)
       ELSE /\ compute_means' = FALSE
            /\ exemplar_means' = MeansOf(exemplar_sets, net_version)
            /\ last' = Call("classify", MeansResult(exemplar_means'), 0, 0, 0,
                            FALSE, method, <<>>, TRUE)
  ELSE /\ UNCHANGED <<compute_means, exemplar_means>>
       /\ last' = Call("classify", MeansResult(exemplar_means), 0, 0, 0, FALSE,
                       method, <<>>, FALSE)

\* step = int(known_classes / 10) - 1 of _wa_fairness
WaStep == (known_classes \div WaBatch) - 1

\* the test with the flag left out
HasToAlignIgnoringFlag(step) == step > 0

\* the test "if self.has_to_normalize and step > 0" of _wa_fairness
HasToAlign(step) == has_to_normalize /\ step > 0

\* the exception net.weight_align(step_b) ends with, "ok" when it returns: a
\* head that is not a WALinear has no align_norms, WA_linears holds
\* WaNumBatch sub-layers, and align_norms asserts that a sub-layer has
\* WaAssertedRows rows
AlignNorms(step_b) ==
  IF classifier # "wa" THEN "AttributeError"
  ELSE IF step_b >= WaNumBatch THEN "IndexError"
  ELSE IF HeadClasses \div WaNumBatch # WaAssertedRows THEN "AssertionError"
  ELSE "ok"

\* _wa_fairness; wa_log lists the alignments carried out, each with the
\* training phase it fell in and the sub-layer it rescaled, and wa_calls
\* counts the 'wa' calls since the last update_representation (MaxWaCalls
\* standing for that many or more)
WaFairness ==
  /\ wa_calls' = Min(wa_calls + 1, MaxWaCalls)
  /\ IF HasToAlign(WaStep)
     THEN IF AlignNorms(WaStep) # "ok"
          THEN /\ UNCHANGED <<has_to_normalize, wa_log>>
               /\ last' = Call("classify", AlignNorms(WaStep), 0, 0, 0, FALSE, "wa",
                               <<>>, FALSE)
          ELSE /\ has_to_normalize' = FALSE
               /\ wa_log' = Append(wa_log, [phase |-> net_version, step |-> WaStep])
               /\ last' = Call("classify", "ok", 0, 0, 0, FALSE, "wa", <<>>, FALSE)
     ELSE /\ UNCHANGED <<has_to_normalize, wa_log>>
          /\ last' = Call("classify", "ok", 0, 0, 0, FALSE, "wa", <<>>, FALSE)

\* _knn_svm without its assertion
KnnSvmUnchecked == "ok"

\* the exception _knn_svm ends with, "ok" when it returns the answer of the
\* fitted classifier: it asserts that self.clf is not None
KnnSvm == IF clf THEN "ok" ELSE "AssertionError"

\* the values a logit takes in the batches handed to classify
LogitLevels == 0..2

\* self.net(images) for one image: a row of HeadClasses logits, the same
\* value o on the columns of the classes known before the newest batch, w on
\* the columns of the newest batch and u on the columns not yet in use
NetOutputs(o, w, u) ==
  [c \in 1..HeadClasses |->
     IF c <= known_classes - DefaultNewClasses THEN o
     ELSE IF c <= known_classes THEN w
     ELSE u]

\* BiasLayer.forward: alpha * x + beta
BiasLayerForward(x) == bias_layer.alpha * x + bias_layer.beta

\* bias_forward(inp, n), the forward pass _bias_training trains the layer
\* with: the columns below n pass through, the others go through the layer
BiasForward(inp, n) ==
  [c \in DOMAIN inp |-> IF c <= n THEN inp[c] ELSE BiasLayerForward(inp[c])]

\* argmax(dim=-1): the 0-based column of the largest logit, the first one
\* on a tie
ArgMax(row) ==
  (CHOOSE c \in DOMAIN row : \A d \in DOMAIN row :
     row[c] > row[d] \/ (row[c] = row[d] /\ c <= d)) - 1

\* _bias_correction: self.bias_layer(preds) takes the whole row through the
\* layer; without a bias layer self.bias_layer is None
BiasCorrection(outputs) ==
  IF ~bias_layer.present
  THEN /\ last' = Call("classify", "AttributeError", 0, 0, 0, FALSE, "bias", <<>>, FALSE)
       /\ UNCHANGED ret
  ELSE /\ last' = Call("classify", "ok", 0, 0, 0, FALSE, "bias", <<>>, FALSE)
       /\ \E reached \in {[c \in DOMAIN outputs |-> BiasLayerForward(outputs[c])]} :
            ret' = [outputs |-> outputs, reached |-> reached, preds |-> ArgMax(reached)]

Classify(method) ==
  /\ impl = "classifiers"
  /\ Running
  /\ IF method \in {"nearest-mean", "cosine"}
     THEN MeanClassify(method) /\ UNCHANGED <<has_to_normalize, wa_log, wa_calls, ret>>
     ELSE IF method \in {"knn", "svm"}
     THEN /\ last' = Call("classify", KnnSvm, 0, 0, 0, FALSE, method, <<>>, FALSE)
          /\ UNCHANGED <<compute_means, exemplar_means, has_to_normalize, wa_log,
                         wa_calls, ret>>
     ELSE IF method = "wa"
     THEN WaFairness /\ UNCHANGED <<compute_means, exemplar_means, ret>>
     ELSE IF method = "bias"
     THEN /\ \E o, w, u \in LogitLevels : BiasCorrection(NetOutputs(o, w, u))
          /\ UNCHANGED <<compute_means, exemplar_means, has_to_normalize, wa_log,
                         wa_calls>>
     ELSE IF method = "fc"
     THEN /\ last' = Call("classify", "ok", 0, 0, 0, FALSE, method, <<>>, FALSE)
          /\ UNCHANGED <<compute_means, exemplar_means, has_to_normalize, wa_log,
                         wa_calls, ret>>
     ELSE /\ last' = Call("classify", "ValueError", 0, 0, 0, FALSE, method, <<>>, FALSE)
          /\ UNCHANGED <<compute_means, exemplar_means, has_to_normalize, wa_log,
                         wa_calls, ret>>
  /\ UNCHANGED <<impl, memory, known_classes, net_version, old_net, exemplar_sets,
                 class_memories, clf, classifier, bias_layer, loss_computer,
                 fc>>

\* the method arguments classify is called with
Methods == {"nearest-mean", "cosine", "knn", "wa", "bias", "fc", "linear"}

\* the fit_clf arguments update_representation is called with
FitClfs == {"none", "svm"}

(***************************************************************************)
(* The driver of icarl_classifiers.py: training phases, exemplar updates   *)
(* and classification in any order                                         *)
(***************************************************************************)
NextMeans ==
  \/ IncrementKnownClasses(DefaultNewClasses)
  \/ \E f \in FitClfs : UpdateRepresentation(f)
  \/ \E m \in 1..MaxM :
       ConstructExemplarSet(Len(exemplar_sets), SamplesPerClass, m, TRUE, 1, <<>>)
  \/ \E m \in 0..MaxM, label \in 0..MaxLabel : ReduceExemplarSet(m, label)
  \/ \E method \in Methods : Classify(method)

SpecMeans == InitClassifiers /\ [][NextMeans]_vars

(***************************************************************************)
(* The allocation of after_train as a function of memory and known_classes *)
(***************************************************************************)
\* memory and known_classes as they stand when after_train has added the
\* class batch
InitAllocation ==
  /\ impl = "icarl"
  /\ memory \in 0..MaxAllocMemory
  /\ known_classes \in 1..MaxAllocClasses
  /\ classifier = "fc"
  /\ exemplar_sets = <<>>
  /\ net_version = 0
  /\ old_net = NoSnapshot
  /\ class_memories = <<>>
  /\ compute_means = TRUE
  /\ exemplar_means = <<>>
  /\ has_to_normalize = TRUE
  /\ clf = FALSE
  /\ wa_log = <<>>
  /\ wa_calls = 0
  /\ bias_layer = NoBiasLayer
  /\ ret = NoRet
  /\ loss_computer = NoLossComputer
  /\ fc = Linear(IF impl = "icarl" THEN NumClasses ELSE HeadClasses)
  /\ last = NoCall

\* the lines of after_train that compute class_memories
Allocate ==
  /\ last.op = "init"
  /\ class_memories' = ClassMemories(memory, known_classes)
  /\ last' = Call("allocate", "ok", 0, 0, 0, FALSE, "", <<>>, FALSE)
  /\ UNCHANGED <<impl, memory, known_classes, net_version, old_net, exemplar_sets,
                 compute_means, exemplar_means, has_to_normalize, clf, classifier,
                 wa_log, wa_calls, bias_layer, ret, loss_computer, fc>>

NextAlloc == Allocate

SpecAlloc == InitAllocation /\ [][NextAlloc]_vars

(***************************************************************************)
(* Bias-corrected classification of icarl_classifiers.py as a function of  *)
(* the trained bias layer and the logits of the network                    *)
(***************************************************************************)
\* the values _bias_training may leave in alpha and beta
BiasAlphas == {1, 2}
BiasBetas == {-2, 0, 1}

\* a model built with classifier='bias' whose first class batch is known and
\* whose bias layer has been trained
InitBias ==
  /\ impl = "classifiers"
  /\ memory = DefaultMemory
  /\ classifier = "bias"
  /\ known_classes = DefaultNewClasses
  /\ bias_layer \in [present : {TRUE}, alpha : BiasAlphas, beta : BiasBetas]
  /\ exemplar_sets = <<>>
  /\ net_version = 0
  /\ old_net = NoSnapshot
  /\ class_memories = <<>>
  /\ compute_means = TRUE
  /\ exemplar_means = <<>>
  /\ has_to_normalize = TRUE
  /\ clf = FALSE
  /\ wa_log = <<>>
  /\ wa_calls = 0
  /\ ret = NoRet
  /\ loss_computer = NoLossComputer
  /\ fc = Linear(IF impl = "icarl" THEN NumClasses ELSE HeadClasses)
  /\ last = NoCall

NextBias ==
  \/ IncrementKnownClasses(DefaultNewClasses)
  \/ Classify("bias")

SpecBias == InitBias /\ [][NextBias]_vars

(***************************************************************************)
(* The loss of icarl_classifiers.py under every configuration of the loss  *)
(* computer                                                                *)
(***************************************************************************)
\* the class_loss and dist_loss arguments the model is constructed with;
\* "mse" is not a key of loss_computer
ClassLossArgs == {PyNone, "bce", "ce", "mse"}
DistLossArgs == {PyNone, "bce", "kldiv", "lfc", "mse"}

\* the class_ratio values a caller hands to the loss computer
ClassRatios == {Rat(1, 1), Rat(1, 2), Rat(1, 3)}

InitLoss ==
  /\ impl = "classifiers"
  /\ memory = DefaultMemory
  /\ classifier = "fc"
  /\ \E class_loss \in ClassLossArgs, dist_loss \in DistLossArgs :
       loss_computer = IF class_loss = PyNone /\ dist_loss = PyNone
                       THEN NoLossComputer
                       ELSE LossComputer(class_loss, dist_loss)
  /\ exemplar_sets = <<>>
  /\ known_classes = 0
  /\ net_version = 0
  /\ old_net = NoSnapshot
  /\ class_memories = <<>>
  /\ compute_means = TRUE
  /\ exemplar_means = <<>>
  /\ has_to_normalize = TRUE
  /\ clf = FALSE
  /\ wa_log = <<>>
  /\ wa_calls = 0
  /\ bias_layer = NoBiasLayer
  /\ ret = NoRet
  /\ fc = Linear(IF impl = "icarl" THEN NumClasses ELSE HeadClasses)
  /\ last = NoCall

NextLoss ==
  \/ IncrementKnownClasses(DefaultNewClasses)
  \/ ConstructExemplarSet(Len(exemplar_sets), SamplesPerClass, 1, TRUE, 1, <<>>)
  \/ UpdateRepresentation("none")
  \/ ComputeLossCall
  \/ \E dist_input \in {NoneTensor, Sliced("new_outputs")},
        dist_target \in {NoneTensor, Sliced("old_outputs")},
        class_ratio \in ClassRatios :
       LossComputerCall(dist_input, dist_target, class_ratio)

SpecLoss == InitLoss /\ [][NextLoss]_vars

(***************************************************************************)
(* Classification through both classes, after any number of incremental   *)
(* steps                                                                   *)
(***************************************************************************)
NextClassify ==
  \/ \E h \in BOOLEAN : AfterTrain(NumClasses \div 2, SamplesPerClass, h, 0)
  \/ \E method \in Methods : ClassifyIcarl(method)
  \/ IncrementKnownClasses(DefaultNewClasses)
  \/ \E m \in 1..MaxM :
       ConstructExemplarSet(Len(exemplar_sets), SamplesPerClass, m, TRUE, 1, <<>>)
  \/ \E f \in FitClfs : UpdateRepresentation(f)
  \/ \E method \in Methods \cup {"svm"} : Classify(method)

SpecClassify == Init /\ [][NextClassify]_vars

(***************************************************************************)
(* The head of icarl.py: every trained head of up to MaxHead outputs,      *)
(* handed to increment_class                                               *)
(***************************************************************************)
\* values of a weight row or a bias: the fresh one and two trained ones
HeadValues == {FreshValue, 1, 2}

TrainedHeads ==
  UNION {[out_features : {n},
          weight : [1..n -> HeadValues \ {FreshValue}],
          bias : [1..n -> HeadValues \ {FreshValue}]] : n \in 1..MaxHead}

InitHead ==
  /\ impl = "icarl"
  /\ memory = DefaultMemory
  /\ classifier = "fc"
  /\ exemplar_sets = EmptyStoreIcarl
  /\ known_classes = 0
  /\ net_version = 0
  /\ old_net = NoSnapshot
  /\ class_memories = <<>>
  /\ compute_means = TRUE
  /\ exemplar_means = <<>>
  /\ has_to_normalize = TRUE
  /\ clf = FALSE
  /\ wa_log = <<>>
  /\ wa_calls = 0
  /\ bias_layer = NoBiasLayer
  /\ ret = NoRet
  /\ loss_computer = NoLossComputer
  /\ fc \in TrainedHeads
  /\ last = NoCall

NextHead == \E num_classes \in 1..MaxHead : IncrementClass(num_classes)

SpecHead == InitHead /\ [][NextHead]_vars

(***************************************************************************)
(* utils.py: the retrieval of the class batch of a training step.  The     *)
(* class batches the two data sets answer with are inputs.                 *)
(***************************************************************************)
\* the classes a data set is split into batches of
BatchClasses == 0..2

\* what get_Kth_class_batch may answer: two distinct classes in some order
ClassBatches ==
  {b \in [1..2 -> BatchClasses] : b[1] # b[2]}

\* the values of the parameter get: the two accepted ones and another
GetValues == {"indices", "subsets", "labels"}

\* nothing returned
NoIndices == <<>>

\* get_item_idxs_of(classes): the identities of the samples, class by class
ItemIdxsOf(classes) == [k \in 1..Len(classes) |-> Ids(classes[k], SamplesPerClass)]

\* what get_kth_batch ends with when the two data sets answer with the
\* class batches train_val_classes and test_classes
GetKthBatchResult(train_val_classes, test_classes, get) ==
  IF get \notin {"indices", "subsets"} THEN "ValueError"
  ELSE IF train_val_classes # test_classes THEN "SystemError"
  ELSE "ok"

GetKthBatch(train_val_classes, test_classes, get) ==
  /\ Running
  /\ last' = Call("get_kth_batch",
                  GetKthBatchResult(train_val_classes, test_classes, get),
                  0, 0, 0, FALSE, get, <<>>, FALSE)
  /\ ret' = [train_classes |-> train_val_classes, test_classes |-> test_classes,
             returned |-> IF GetKthBatchResult(train_val_classes, test_classes, get) = "ok"
                          THEN <<ItemIdxsOf(train_val_classes), ItemIdxsOf(test_classes)>>
                          ELSE NoIndices]
  /\ UNCHANGED <<impl, memory, known_classes, net_version, old_net, exemplar_sets,
                 class_memories, compute_means, exemplar_means, has_to_normalize,
                 clf, classifier, wa_log, wa_calls, bias_layer, loss_computer,
                 fc>>

\* get_idxs_per_class_of_kth_batch returns the indices of both batches as
\* they come
GetIdxsPerClassOfKthBatch(train_classes, test_classes) ==
  /\ Running
  /\ last' = Call("get_idxs_per_class_of_kth_batch", "ok", 0, 0, 0, FALSE, "",
                  <<>>, FALSE)
  /\ ret' = [train_classes |-> train_classes, test_classes |-> test_classes,
             returned |-> <<ItemIdxsOf(train_classes), ItemIdxsOf(test_classes)>>]
  /\ UNCHANGED <<impl, memory, known_classes, net_version, old_net, exemplar_sets,
                 class_memories, compute_means, exemplar_means, has_to_normalize,
                 clf, classifier, wa_log, wa_calls, bias_layer, loss_computer,
                 fc>>

NextBatch ==
  \/ \E a, b \in ClassBatches, get \in GetValues : GetKthBatch(a, b, get)
  \/ \E a, b \in ClassBatches : GetIdxsPerClassOfKthBatch(a, b)

SpecBatch == InitClassifiers /\ [][NextBatch]_vars

(***************************************************************************)
(* Properties                                                              *)
(***************************************************************************)
IsPrefix(a, b) == Len(a) <= Len(b) /\ a = SubSeq(b, 1, Len(a))

NoDuplicates(s) == Cardinality(SeqRange(s)) = Len(s)

\* the first old class whose set is shorter than its new allocation when
\* after_train moves from old to K known classes; old when there is none
FirstShort(old, K) ==
  LET short == {i \in 0..(old - 1) :
                  Len(exemplar_sets[i + 1].indexes) < ClassMemory(memory, K, i)}
  IN  IF short = {} THEN old ELSE LeastOf(short)

C2_ReduceKeepsPrefix ==
  [][ /\ ( /\ last'.op = "reduce"
           /\ last'.label < Len(exemplar_sets)
           /\ Len(exemplar_sets[last'.label + 1]) >= last'.m )
        => /\ Len(exemplar_sets') = Len(exemplar_sets)
           /\ \A c \in 0..(Len(exemplar_sets) - 1) :
                exemplar_sets'[c + 1] =
                  IF c = last'.label
                  THEN SubSeq(exemplar_sets[c + 1], 1, last'.m)
                  ELSE exemplar_sets[c + 1]
      /\ (last'.op = "after_train" /\ last'.result # "AssertionError")
        => \A fs \in {FirstShort(known_classes, known_classes')} :
             /\ \A i \in 0..(fs - 1) :
                  exemplar_sets'[i + 1] =
                    [indexes |-> SubSeq(exemplar_sets[i + 1].indexes, 1,
                                        ClassMemory(memory, known_classes', i)),
                     features |-> SubSeq(exemplar_sets[i + 1].features, 1,
                                         ClassMemory(memory, known_classes', i))]
             /\ \A c \in known_classes'..(NumClasses - 1) :
                  exemplar_sets'[c + 1] = exemplar_sets[c + 1]
    ]_vars

\* a set of more than m >= 1 exemplars was reduced to m next to another set
C2_Witness ==
  /\ last.op = "reduce"
  /\ last.result = "ok"
  /\ last.m >= 1
  /\ last.n > last.m
  /\ StoreSize > 1
  /\ Len(Indexes(last.label)) = last.m

\* C3: a reduction to m of a set with fewer than m elements fails with an
\* error and leaves the set as it was.
C3_ReduceRejectsExpansion ==
  [][ /\ ( /\ last'.op = "reduce"
           /\ last'.label < Len(exemplar_sets)
           /\ Len(exemplar_sets[last'.label + 1]) < last'.m )
        => /\ last'.result # "ok"
           /\ exemplar_sets' = exemplar_sets
      /\ (last'.op = "after_train" /\ last'.result # "AssertionError")
        => \A fs \in {FirstShort(known_classes, known_classes')} :
             fs < known_classes
               => /\ last'.result = "ValueError"
                  /\ exemplar_sets'[fs + 1] = exemplar_sets[fs + 1]
    ]_vars

\* C4: herding on n >= m samples of a class stores exactly m exemplars for
\* it, each the identity of one of the samples handed over, none twice.
C4_HerdingSelectsDistinctSamples ==
  /\ (last.op = "after_train" /\ last.herding)
       => \A c \in DOMAIN last.selected :
            /\ Len(Indexes(c)) = ClassMemory(memory, known_classes, c)
            /\ SeqRange(Indexes(c)) \subseteq SeqRange(Ids(c, last.n))
            /\ NoDuplicates(Indexes(c))
  /\ (last.op = "construct" /\ last.herding /\ last.n >= last.m)
       => /\ last.result = "ok"
          /\ \A c \in DOMAIN last.selected :
               /\ Len(Indexes(c)) = last.m
               /\ SeqRange(Indexes(c)) \subseteq SeqRange(Ids(last.label, last.n))
               /\ NoDuplicates(Indexes(c))

\* C5: herding asked for more exemplars than the class has samples fails
\* with an error and stores nothing for the class.
C5_HerdingRejectsBudgetAboveSamples ==
  [][ /\ (last'.op = "construct" /\ last'.herding /\ last'.m > last'.n)
        => /\ last'.result # "ok"
           /\ exemplar_sets' = exemplar_sets
      /\ ( /\ last'.op = "after_train"
           /\ last'.herding
           /\ last'.result # "AssertionError"
           /\ last'.n < ClassMemory(memory, known_classes', known_classes) )
        => /\ last'.result = "ValueError"
           /\ \A c \in known_classes..(NumClasses - 1) :
                exemplar_sets'[c + 1] = exemplar_sets[c + 1]
    ]_vars

\* the first incremental step asked for more exemplars than the samples of
\* its first class
C5_Witness ==
  /\ last.op = "after_train"
  /\ last.herding
  /\ last.label = 0
  /\ last.result = "ValueError"
  /\ last.n < ClassMemory(memory, known_classes, 0)
  /\ Indexes(0) = <<>>

\* C6: the k-th element of a stored exemplar set is the sample herding chose
\* at greedy step k.
C6_StoredOrderIsSelectionOrder ==
  (last.op \in {"after_train", "construct"} /\ last.herding /\ last.result = "ok")
    => \A c \in DOMAIN last.selected :
         SubSeq(Indexes(c), Len(Indexes(c)) - Len(last.selected[c]) + 1,
                Len(Indexes(c))) = last.selected[c]

\* C7: after every completed after_train each known class holds exactly its
\* allocation and the sets hold memory exemplars in all.
C7_AfterTrainFillsAllocation ==
  (last.op = "after_train" /\ last.result = "ok")
    => /\ \A i \in 0..(known_classes - 1) :
            Len(Indexes(i)) = ClassMemory(memory, known_classes, i)
       /\ SumOf([j \in 1..known_classes |-> Len(Indexes(j - 1))]) = memory

\* C8: a set is appended to only while it is created and only cut to a prefix
\* afterwards: in every step the set of a class already learned becomes a
\* prefix of what it was, and the set of a class being learned extends what
\* it was.
C8_SetsOnlyShrinkToPrefix ==
  [][ IF impl = "icarl"
      THEN /\ \A i \in 0..(known_classes - 1) :
                /\ IsPrefix(exemplar_sets'[i + 1].indexes, exemplar_sets[i + 1].indexes)
                /\ IsPrefix(exemplar_sets'[i + 1].features, exemplar_sets[i + 1].features)
           /\ \A c \in known_classes..(NumClasses - 1) :
                /\ IsPrefix(exemplar_sets[c + 1].indexes, exemplar_sets'[c + 1].indexes)
                /\ IsPrefix(exemplar_sets[c + 1].features, exemplar_sets'[c + 1].features)
      ELSE /\ Len(exemplar_sets') >= Len(exemplar_sets)
           /\ \A c \in 0..(Len(exemplar_sets) - 1) :
                IsPrefix(exemplar_sets'[c + 1], exemplar_sets[c + 1])
    ]_vars

\* a later incremental step has cut the set of class 0 to a shorter, non-empty
\* prefix
C8_Witness ==
  /\ last.op = "after_train"
  /\ last.result = "ok"
  /\ last.label > 0
  /\ Indexes(0) # <<>>
  /\ Len(Indexes(0)) = ClassMemory(memory, known_classes, 0)
  /\ ClassMemory(memory, last.label, 0) > ClassMemory(memory, known_classes, 0)

\* C9: whenever nearest-mean or cosine classification reads the cached means
\* they are the means of the exemplar sets as they are now under the network
\* as it is now.
C9_CachedMeansNeverStale ==
  ( /\ last.op = "classify"
    /\ last.method \in {"nearest-mean", "cosine"}
    /\ ~compute_means )
    => exemplar_means = MeansOf(exemplar_sets, net_version)

\* C10: training and exemplar updates compute no means; the first
\* nearest-mean or cosine classification after an invalidation computes
\* them; classifications before the next invalidation reuse them.
C10_MeansComputedLazily ==
  [][ /\ last'.op \in {"update_representation", "construct", "reduce",
                       "increment_known_classes"}
        => /\ exemplar_means' = exemplar_means
           /\ ~last'.computed
      /\ (last'.op = "classify" /\ last'.method \notin {"nearest-mean", "cosine"})
        => /\ exemplar_means' = exemplar_means
           /\ compute_means' = compute_means
           /\ ~last'.computed
      /\ (last'.op = "classify" /\ last'.method \in {"nearest-mean", "cosine"})
        => IF compute_means
           THEN /\ last'.computed
                /\ (\A c \in 1..Len(exemplar_sets) : exemplar_sets[c] # <<>>)
                     => /\ ~compute_means'
                        /\ Len(exemplar_means') = Len(exemplar_sets)
                        /\ \A c \in 1..Len(exemplar_sets) :
                             /\ exemplar_means'[c].samples = SeqRange(exemplar_sets[c])
                             /\ exemplar_means'[c].net = net_version
           ELSE /\ ~last'.computed
                /\ exemplar_means' = exemplar_means
                /\ ~compute_means'
    ]_vars

\* after a training phase the means were computed once and a later
\* nearest-mean classification answered from the cache
C10_Witness ==
  /\ last.op = "classify"
  /\ last.method = "nearest-mean"
  /\ last.result = "ok"
  /\ ~last.computed
  /\ net_version >= 1
  /\ Len(exemplar_means) > 1
  /\ exemplar_means[1].net = net_version

\* the call being made is classify with method 'wa' on a weight-aligned head
WaCall == classifier = "wa" /\ last'.op = "classify" /\ last'.method = "wa"

\* the already-normalized flag is reset by update_representation only
FlagResetOnlyByTraining ==
  (has_to_normalize' /\ ~has_to_normalize) => last'.op = "update_representation"

\* C11 (as claimed): the first 'wa' classify call after a training phase
\* performs the alignment, every later 'wa' call before the next
\* update_representation performs none, and the already-normalized flag is
\* reset only at the start of the next training phase.
C11_WaAlignsOnFirstCallOfPhase ==
  [][ /\ (WaCall /\ net_version >= 1) => (wa_log' # wa_log <=> wa_calls = 0)
      /\ FlagResetOnlyByTraining
    ]_vars

\* C11 (amended): the first 'wa' classify call after a training phase
\* performs the alignment when at least two class batches are known
\* (int(known_classes / 10) - 1 > 0); no 'wa' call performs a second
\* alignment before the next update_representation; nothing but a 'wa' call
\* aligns; the flag is reset only at the start of the next training phase.
C11_WaAlignsAtMostOncePerPhase ==
  [][ /\ (WaCall /\ wa_calls = 0 /\ WaStep > 0 /\ WaStep < WaNumBatch)
           => wa_log' = Append(wa_log, [phase |-> net_version, step |-> WaStep])
      /\ (\E j \in 1..Len(wa_log) : wa_log[j].phase = net_version)
           => wa_log' = wa_log
      /\ ~(last'.op = "classify" /\ last'.method = "wa") => wa_log' = wa_log
      /\ FlagResetOnlyByTraining
    ]_vars

\* a 'wa' call has followed the alignment of the current training phase
C11_Witness ==
  /\ last.op = "classify"
  /\ last.method = "wa"
  /\ last.result = "ok"
  /\ classifier = "wa"
  /\ net_version >= 1
  /\ wa_calls >= 2
  /\ ~has_to_normalize
  /\ wa_log # <<>>
  /\ wa_log[Len(wa_log)].phase = net_version

\* the number of classes known before the newest class batch
OldKnownClasses ==
  IF known_classes > DefaultNewClasses THEN known_classes - DefaultNewClasses ELSE 0

\* C12: bias-corrected classification applies alpha * x + beta only to the
\* logit columns of the newest classes; the columns of the old classes
\* (below the old known-class count) reach the arg-max unmodified.
C12_BiasCorrectsOnlyNewColumns ==
  (last.op = "classify" /\ last.method = "bias" /\ last.result = "ok")
    => ret.reached = BiasForward(ret.outputs, OldKnownClasses)

\* the classification loss alone, as compute_loss hands its tensors over
PlainClassLoss(kind) == Loss(kind, NewOutputs, OneHot)

\* the last call was given a distillation input and a distillation target
TargetsSupplied == ret.dist_input.name # "None" /\ ret.dist_target.name # "None"

\* C13: when no distillation target is supplied (dist_input or dist_target
\* is None, as with zero known classes) the composed loss is the plain
\* classification loss of the selected kind: no class_ratio weighting, no
\* distillation term.
C13_NoTargetGivesPlainClassLoss ==
  /\ (last.op = "loss_computer" /\ last.result = "ok" /\ ~TargetsSupplied)
       => ret.value = PlainClassLoss(loss_computer.classification)
  /\ (last.op = "compute_loss" /\ last.result = "ok" /\ known_classes = 0)
       => ret.value = PlainClassLoss(IF loss_computer.present
                                     THEN loss_computer.classification ELSE "bce")

\* a distillation kind is configured, a class_ratio below 1 and a
\* distillation input were passed, and the target was None
C13_Witness ==
  /\ last.op = "loss_computer"
  /\ last.result = "ok"
  /\ loss_computer.distillation \in LossKinds
  /\ ret.dist_input.name # "None"
  /\ ret.dist_target.name = "None"
  /\ ret.class_ratio # Rat(1, 1)

\* C14: with a distillation target supplied, under 'lfc' the classification
\* term has weight 1 whatever class_ratio the caller passed; under every
\* other distillation kind it has weight class_ratio and the distillation
\* term has weight (1 - class_ratio) * (distilled columns / 100).
C14_LfcForcesClassRatioOne ==
  ( /\ last.op = "loss_computer"
    /\ last.result = "ok"
    /\ loss_computer.distillation # PyNone
    /\ TargetsSupplied )
    => /\ ret.value.class_loss = PlainClassLoss(loss_computer.classification)
       /\ ret.value.dist_loss.kind = loss_computer.distillation
       /\ IF loss_computer.distillation = "lfc"
          THEN ret.value.class_ratio = Rat(1, 1)
          ELSE /\ ret.value.class_ratio = ret.class_ratio
               /\ ret.value.dist_ratio = Rat(ret.class_ratio.den - ret.class_ratio.num,
                                             ret.class_ratio.den)
               /\ ret.value.dist_correction = Rat(ret.dist_input.cols, 100)

\* 'lfc' was composed with a class_ratio of 1/2 over 20 distilled columns
C14_Witness ==
  /\ last.op = "loss_computer"
  /\ last.result = "ok"
  /\ loss_computer.distillation = "lfc"
  /\ TargetsSupplied
  /\ ret.class_ratio = Rat(1, 2)
  /\ ret.dist_input.cols = 20
  /\ ret.value.class_ratio = Rat(1, 1)

\* the model was configured with a loss identifier that is no key of
\* loss_computer
UnknownLossId ==
  /\ loss_computer.present
  /\ \/ loss_computer.classification \notin LossKinds \cup {PyNone}
     \/ loss_computer.distillation \notin LossKinds \cup {PyNone}

\* C16: an unrecognized loss identifier is fatal at once: no loss is ever
\* computed, and no training phase completed, by a model configured with
\* one, also on the first class batch where no distillation target exists.
C16_UnknownLossIdIsFatal ==
  (UnknownLossId /\ last.op \in {"compute_loss", "loss_computer", "update_representation"})
    => last.result # "ok"

\* the strategy identifiers each classify takes a branch for
SupportedMethods ==
  IF impl = "icarl" THEN {"nearest-mean", "fc", "knn"}
  ELSE {"nearest-mean", "cosine", "knn", "svm", "wa", "bias", "fc"}

\* C15: classify called with an identifier outside the supported set always
\* ends with an error; it never returns, with a result or with nothing.
C15_UnknownMethodFails ==
  (last.op = "classify" /\ last.method \notin SupportedMethods) => last.result # "ok"

\* C17: a construction or reduction request that fails, by itself or inside
\* after_train, leaves known_classes, the old-model snapshot and every
\* exemplar set as they were before the step began.
C17_FailedStepLeavesStateAlone ==
  [][ ( /\ last'.op \in {"after_train", "construct", "reduce"}
        /\ last'.result \in {"ValueError", "AssertionError", "IndexError"}
        /\ ~(last'.op = "after_train" /\ last'.result = "AssertionError") )
        => /\ known_classes' = known_classes
           /\ old_net' = old_net
           /\ exemplar_sets' = exemplar_sets
    ]_vars

\* C18: classify of icarl_classifiers.py with 'knn' or 'svm' fails until a
\* fit has run, and answers from the fitted classifier afterwards; the
\* classifier is fitted only by
\* a training phase that completes with fit_clf 'other_classifiers' or
\* 'svm', and stays fitted.
C18_LearnedClassifierNeedsFit ==
  [][ /\ (impl = "classifiers" /\ last'.op = "classify" /\ last'.method \in {"knn", "svm"})
           => (last'.result = "ok" <=> clf)
      /\ (clf' /\ ~clf)
           => /\ last'.op = "update_representation"
              /\ last'.result = "ok"
              /\ last'.method \in {"other_classifiers", "svm"}
      /\ clf => clf'
    ]_vars

\* 'svm' classification answered after a training phase that fitted the
\* classifier
C18_Witness ==
  /\ impl = "classifiers"
  /\ last.op = "classify"
  /\ last.method = "svm"
  /\ last.result = "ok"
  /\ clf
  /\ net_version >= 1
\* C19: expanding a head of N outputs by K new classes gives a head of N + K
\* outputs, never fewer than N, whose first N weight rows and biases are the
\* ones the head had before
C19_ExpandedHeadKeepsOldRows ==
  [][ last'.op = "increment_class"
        => /\ last'.result = "ok"
           /\ fc'.out_features = fc.out_features + last'.n
           /\ fc'.out_features >= fc.out_features
           /\ SubSeq(fc'.weight, 1, fc.out_features) = fc.weight
           /\ SubSeq(fc'.bias, 1, fc.out_features) = fc.bias
    ]_vars

\* a training phase of icarl_classifiers.py
TrainingPhase == impl = "classifiers" /\ last'.op = "update_representation"

\* old_net after the phase is a copy of the network as it was before the
\* phase, in evaluation mode
SnapshotOfThisPhase ==
  old_net'.present /\ old_net'.net = net_version /\ ~old_net'.training

AnyExemplarsExist == \E c \in 1..Len(exemplar_sets) : exemplar_sets[c] # <<>>

\* C20 as stated: a training phase copies the network into old_net, in
\* evaluation mode and with the weights from before the phase, if and only
\* if any exemplars exist; the copy still holds those weights when the phase
\* ends
C20_SnapshotIffExemplarsExist ==
  [][ TrainingPhase
        => /\ SnapshotOfThisPhase <=> AnyExemplarsExist
           /\ ~AnyExemplarsExist => old_net' = old_net
    ]_vars

\* C20, amended: a training phase copies the network into old_net, in
\* evaluation mode and with the weights from before the phase, if and only
\* if the list of exemplar sets is not empty; the copy still holds those
\* weights when the phase ends, after the weights of the network have moved
\* on, so that a phase that computes distillation targets reads them from
\* the weights from before the phase
C20_SnapshotIffExemplarSetsExist ==
  [][ TrainingPhase
        => /\ SnapshotOfThisPhase <=> Len(exemplar_sets) > 0
           /\ Len(exemplar_sets) = 0 => old_net' = old_net
           /\ (last'.result = "ok" /\ known_classes > 0)
                 => SnapshotOfThisPhase /\ net_version' = net_version + 1
    ]_vars

C20_Witness ==
  /\ impl = "classifiers" /\ last.op = "update_representation"
  /\ last.result = "ok" /\ known_classes > 0
  /\ Len(exemplar_sets) > 0
  /\ old_net.present /\ ~old_net.training /\ old_net.net = net_version - 1
  /\ net_version = MaxPhases

\* C21: the model holds at most one snapshot: the snapshot in old_net does
\* not itself hold an earlier snapshot
C21_SnapshotHoldsNoSnapshot == old_net.present => old_net.inner = 0

\* the greedy steps that chose the sequence chosen among the n samples ids,
\* under the distances of table t, never passed over a sample of lower
\* position that was still unselected and at the same distance
TiesGoToLowestIndex(t, n, ids, chosen) ==
  \A k \in 1..Len(chosen) : \A p, j \in 0..(n - 1) :
    (/\ ids[p + 1] = chosen[k]
     /\ j < p
     /\ ids[j + 1] \notin SeqRange(SubSeq(chosen, 1, k - 1)))
      => Distance(t, n, k - 1, j) # Distance(t, n, k - 1, p)

\* C22: herding is deterministic: at every greedy step a tie in distance
\* goes to the sample of lowest position, in construct_exemplar_set of
\* icarl_classifiers.py and in the constructions of after_train of icarl.py,
\* which fixes the sequence selected from given features
C22_HerdingBreaksTiesByLowestIndex ==
  [][ /\ (impl = "classifiers" /\ last'.op = "construct" /\ last'.herding
             /\ last'.result = "ok")
          => TiesGoToLowestIndex(ret'.features, last'.n, Ids(last'.label, last'.n),
                                 last'.selected[Len(exemplar_sets)])
      /\ (impl = "icarl" /\ last'.op = "after_train" /\ last'.herding)
          => \A c \in DOMAIN last'.selected :
               TiesGoToLowestIndex(ret'.features, last'.n, Ids(c, last'.n),
                                   last'.selected[c])
    ]_vars

\* C23: when the class batch of the training data and that of the
\* evaluation data differ, each function that retrieves the batch ends with
\* the inconsistent-state error and returns no indices
C23_MismatchedBatchIsInconsistentState ==
  [][ (/\ last'.op \in {"get_kth_batch", "get_idxs_per_class_of_kth_batch"}
       /\ ret'.train_classes # ret'.test_classes)
        => last'.result = "SystemError" /\ ret'.returned = NoIndices
    ]_vars

\* every class known before the step holds the allocation of that step
OldClassesHoldAllocation ==
  \A i \in 0..(known_classes - 1) :
    Len(exemplar_sets[i + 1].indexes) = ClassMemory(memory, known_classes, i)

\* C24: in an after_train step the allocation of no known class grows, and
\* when every known class holds its previous allocation and the allocation
\* passes the assertion, every one of them is reduced to its new allocation:
\* no reduction raises
C24_AllocationNeverGrows ==
  [][ (impl = "icarl" /\ last'.op = "after_train" /\ known_classes > 0)
        => /\ \A i \in 0..(known_classes - 1) :
                ClassMemory(memory, known_classes', i)
                  <= ClassMemory(memory, known_classes, i)
           /\ (OldClassesHoldAllocation /\ last'.result # "AssertionError")
                => \A i \in 0..(known_classes - 1) :
                     /\ Len(exemplar_sets'[i + 1].indexes)
                          = ClassMemory(memory, known_classes', i)
                     /\ IsPrefix(exemplar_sets'[i + 1].indexes,
                                 exemplar_sets[i + 1].indexes)
    ]_vars

\* a second step has reduced the classes of the first, which held their
\* allocation, to a smaller one
C24_Witness ==
  /\ impl = "icarl" /\ last.op = "after_train" /\ last.result = "ok"
  /\ last.label > 0
  /\ \A i \in 0..(last.label - 1) :
       /\ Len(exemplar_sets[i + 1].indexes) = ClassMemory(memory, known_classes, i)
       /\ ClassMemory(memory, known_classes, i) < ClassMemory(memory, last.label, i)

\* C25: a training phase that computes its loss with known_classes > 0
\* has a snapshot in old_net to read the distillation targets from, so the
\* loss never calls an absent old model
C25_LossFindsSnapshot ==
  [][ (TrainingPhase /\ known_classes > 0)
        => old_net'.present /\ last'.result # "TypeError"
    ]_vars

\* C26: construct_exemplar_set of icarl_classifiers.py accepts a
\* construction for the class label only when exactly label sets are
\* stored, with herding and without, so that the set it appends is stored
\* at the position of its label
C26_SetStoredAtPositionOfLabel ==
  [][ (impl = "classifiers" /\ last'.op = "construct" /\ last'.result = "ok")
        => /\ last'.label = Len(exemplar_sets)
           /\ Len(exemplar_sets') = last'.label + 1
    ]_vars

\* C27: the set construct_exemplar_set of icarl_classifiers.py stores, with
\* herding and without, holds m distinct identities of the samples it was
\* given for the class
C27_StoredValuesAreIdentitiesOfTheClass ==
  [][ (impl = "classifiers" /\ last'.op = "construct" /\ last'.result = "ok")
        => LET stored == exemplar_sets'[Len(exemplar_sets')]
           IN  /\ Len(stored) = last'.m
               /\ Cardinality(SeqRange(stored)) = last'.m
               /\ SeqRange(stored) \subseteq SeqRange(Ids(last'.label, last'.n))
    ]_vars

\* C28: after a completed after_train of icarl.py every known class has a
\* non-empty exemplar set with one cached feature per identity, with
\* herding and without, so that nearest-mean classification of known
\* classes never divides by the size of an empty set
C28_KnownClassesHaveExemplars ==
  [][ /\ (impl = "icarl" /\ last'.op = "after_train" /\ last'.result = "ok"
             /\ memory >= known_classes')
          => \A i \in 1..known_classes' :
               /\ exemplar_sets'[i].indexes # <<>>
               /\ Len(exemplar_sets'[i].features) = Len(exemplar_sets'[i].indexes)
      /\ (impl = "icarl" /\ last'.op = "classify" /\ known_classes > 0)
          => last'.result # "ZeroDivisionError"
    ]_vars

====
